---------------------------- MODULE Spec2Model ----------------------------
(* A model of lib/runner.js: the coordinator that forks worker processes,  *)
(* routes their messages, deduplicates phase announcements, aggregates the *)
(* workers' statistics on a timer and announces the end of the run.        *)
EXTENDS Integers, Sequences, FiniteSets, Bags, TLC

(***************************************************************************)
(* Bounds of the model.                                                    *)
(***************************************************************************)
\* the largest value of ARTILLERY_WORKERS that is tried
MaxPool == 2
\* the number of messages the workers' processes deliver to the runner
MaxMsgs == 3
\* the number of times the interval timers may fire
MaxTicks == 2
\* the number of times the caller may call run() in ReSpec
MaxRuns == 2

\* message.pid of a message without the field (the pids of processes start at 1)
NoPid == 0

\* the phase indices of the script
Phases == {0, 1}

\* _concurrency values a snapshot may carry, in hundredths (325 is 3.25)
Concurrencies == {200, 325}

VARIABLES
    env,              \* process.env.ARTILLERY_WORKERS: <<>> unset/empty, <<n>> the string n
    runs,             \* number of calls of run() so far
    workers,          \* this._workers: pid -> [isDone, kills]
    timers,           \* number of interval timers set by run()
    intermediates,    \* this._intermediates: sequence of <<pid, snapshot>>
    allIntermediates, \* this._allIntermediates: sequence of snapshots
    currentPhase,     \* this._currentPhase
    events,           \* what this.events has emitted, in order
    ticks,            \* number of timer callbacks run
    faults,           \* number of exceptions thrown out of _onWorkerMessage
    crashed,          \* TRUE once an uncaught exception has ended the process
    workerPos,        \* pid -> how many messages of its script a worker has sent
    processed         \* history: the messages _onWorkerMessage was called with

vars == <<env, runs, workers, timers, intermediates, allIntermediates,
          currentPhase, events, ticks, faults, crashed, workerPos, processed>>

(***************************************************************************)
(* Helpers.                                                                *)
(***************************************************************************)
Front(s) == SubSeq(s, 1, Len(s) - 1)

Last(s) == s[Len(s)]

RECURSIVE SetSum(_, _)
\* the sum of f[x] over x in S
SetSum(f, S) ==
    IF S = {} THEN 0
    ELSE LET x == CHOOSE y \in S : TRUE
         IN f[x] + SetSum(f, S \ {x})

SetMax(S) == CHOOSE x \in S : \A y \in S : y <= x

\* number of emitted events of one type
Count(ev, type) == Cardinality({i \in 1..Len(ev) : ev[i].type = type})

DoneCount == Count(events, "done")

StatsCount == Count(events, "stats")

(***************************************************************************)
(* artillery-core's stats.round and stats.combine.                         *)
(***************************************************************************)
\* stats.round(number, 1) == Math.round(number * 10) / 10, on hundredths
round(h) == ((h + 5) \div 10) * 10

RECURSIVE combine(_)
\* the merge of a list of snapshots: which snapshots went in (as a bag) and
\* the concurrency gauge combine computes itself (the sum of the inputs')
combine(snaps) ==
    IF snaps = <<>> THEN [snaps |-> EmptyBag, concurrency |-> 0]
    ELSE LET r == combine(Front(snaps))
             s == Last(snaps)
         IN [snaps |-> r.snaps (+) SetToBag({s}),
             concurrency |-> r.concurrency + s.concurrency]

(***************************************************************************)
(* The messages a worker may send.                                         *)
(***************************************************************************)
Msg(event, pid, phase, stats) ==
    [event |-> event, pid |-> pid, phase |-> phase, stats |-> stats]

\* what the process w may send.  message.phase is <<>> when the field is
\* missing, else <<index>>; message.stats is a snapshot [concurrency |-> c];
\* only stats and done messages carry a pid, the worker's own (or none)
MsgsOf(w) ==
    {Msg("phaseStarted", NoPid, <<i>>, [concurrency |-> 0]) : i \in Phases}
    \cup {Msg("phaseStarted", NoPid, <<>>, [concurrency |-> 0])}
    \cup {Msg("phaseCompleted", NoPid, <<>>, [concurrency |-> 0])}
    \cup {Msg("other", NoPid, <<>>, [concurrency |-> 0])}
    \cup {Msg("stats", w, <<>>, [concurrency |-> c]) : c \in Concurrencies}
    \cup {Msg("done", p, <<>>, [concurrency |-> 0]) : p \in {w, NoPid}}

(***************************************************************************)
(* Init: the state after createRunner().                                   *)
(***************************************************************************)
Init ==
    /\ env \in {<<>>} \cup {<<n>> : n \in 0..MaxPool}
    /\ runs = 0
    /\ workers = [p \in {} |-> [isDone |-> FALSE, kills |-> 0]]
    /\ timers = 0
    /\ intermediates = <<>>
    /\ allIntermediates = <<>>
    /\ currentPhase = -1
    /\ events = <<>>
    /\ ticks = 0
    /\ faults = 0
    /\ crashed = FALSE
    /\ workerPos = [p \in {} |-> 0]
    /\ processed = <<>>


(***************************************************************************)
(* run(): divide the work, fork one worker per script, start the timer.    *)
(***************************************************************************)
\* process.env.ARTILLERY_WORKERS || 1 || os.cpus().length: an unset or empty
\* variable gives 1; any other string, "0" included, is truthy and is used
numWorkers(e) == IF e = <<>> THEN 1 ELSE e[1]

\* divideWork(script, numWorkers): one script per requested worker
divideWork(n) == [i \in 1..n |-> i]

\* run() with a fork loop that runs once too often
runForksOneMore ==
    LET workerScripts == divideWork(numWorkers(env))
        base == Cardinality(DOMAIN workers)
        forked == (base + 1)..(base + Len(workerScripts) + 1)
    IN /\ ~crashed
       /\ workers' = [p \in DOMAIN workers \cup forked |->
                         IF p \in forked THEN [isDone |-> FALSE, kills |-> 0]
                                         ELSE workers[p]]
       /\ workerPos' = [p \in DOMAIN workers \cup forked |->
                           IF p \in forked THEN 0 ELSE workerPos[p]]
       /\ timers' = timers + 1
       /\ runs' = runs + 1
       /\ UNCHANGED <<env, intermediates, allIntermediates, currentPhase,
                      events, ticks, faults, crashed, processed>>

\* the body of run(); a forked process gets the next unused pid
run ==
    LET workerScripts == divideWork(numWorkers(env))
        base == Cardinality(DOMAIN workers)
        forked == (base + 1)..(base + Len(workerScripts))
    IN /\ ~crashed
       /\ workers' = [p \in DOMAIN workers \cup forked |->
                         IF p \in forked THEN [isDone |-> FALSE, kills |-> 0]
                                         ELSE workers[p]]
       /\ workerPos' = [p \in DOMAIN workers \cup forked |->
                           IF p \in forked THEN 0 ELSE workerPos[p]]
       /\ timers' = timers + 1
       /\ runs' = runs + 1
       /\ UNCHANGED <<env, intermediates, allIntermediates, currentPhase,
                      events, ticks, faults, crashed, processed>>

\* the caller starts the run, once
Run == runs = 0 /\ run

\* a caller that calls run() again on the same runner
ReRun == runs >= 1 /\ runs < MaxRuns /\ run

(***************************************************************************)
(* _sendStats                                                              *)
(***************************************************************************)
Max2(a, b) == IF a >= b THEN a ELSE b

RECURSIVE maxWorkerConcurrenciesLast(_)
\* the reduce keeping each worker's latest value instead of its largest
maxWorkerConcurrenciesLast(ints) ==
    IF ints = <<>> THEN [p \in {} |-> 0]
    ELSE LET acc == maxWorkerConcurrenciesLast(Front(ints))
             el == Last(ints)
         IN [p \in DOMAIN acc \cup {el[1]} |->
                IF p = el[1] THEN el[2].concurrency ELSE acc[p]]

RECURSIVE maxWorkerConcurrencies(_)
\* the L.reduce over this._intermediates: pid -> the largest _concurrency
maxWorkerConcurrencies(ints) ==
    IF ints = <<>> THEN [p \in {} |-> 0]
    ELSE LET acc == maxWorkerConcurrencies(Front(ints))
             el == Last(ints)
             pid == el[1]
             intermediate == el[2]
         IN IF pid \in DOMAIN acc
            THEN [acc EXCEPT ![pid] = Max2(acc[pid], intermediate.concurrency)]
            ELSE [p \in DOMAIN acc \cup {pid} |->
                     IF p = pid THEN intermediate.concurrency ELSE acc[p]]

\* stats.round(L.sum(L.map(maxWorkerConcurrencies, v => v)), 1)
averageConcurrency(ints) ==
    LET m == maxWorkerConcurrencies(ints)
    IN round(SetSum(m, DOMAIN m))

\* L.map(this._intermediates, el => el[1])
snapshotsOf(ints) == [i \in 1..Len(ints) |-> ints[i][2]]

\* _sendStats() without the reset of this._intermediates
sendStatsKeep(ev, ints) ==
    LET combined == [combine(snapshotsOf(ints))
                        EXCEPT !.concurrency = averageConcurrency(ints)]
    IN [events |-> Append(ev, [type |-> "stats", arg |-> combined]),
        intermediates |-> ints]

\* _sendStats() that returns early when nothing is buffered
sendStatsSkipEmpty(ev, ints) ==
    IF ints = <<>>
    THEN [events |-> ev, intermediates |-> <<>>]
    ELSE LET combined == [combine(snapshotsOf(ints))
                             EXCEPT !.concurrency = averageConcurrency(ints)]
         IN [events |-> Append(ev, [type |-> "stats", arg |-> combined]),
             intermediates |-> <<>>]

\* _sendStats(): what it emits and what it leaves in this._intermediates
sendStats(ev, ints) ==
    LET combined == [combine(snapshotsOf(ints))
                        EXCEPT !.concurrency = averageConcurrency(ints)]
    IN [events |-> Append(ev, [type |-> "stats", arg |-> combined]),
        intermediates |-> <<>>]

\* a callback of an interval timer
TimerFire ==
    /\ ~crashed
    /\ timers > 0
    /\ ticks < MaxTicks
    /\ LET r == sendStats(events, intermediates)
       IN /\ events' = r.events
          /\ intermediates' = r.intermediates
    /\ ticks' = ticks + 1
    /\ UNCHANGED <<env, runs, workers, timers, allIntermediates, currentPhase,
                   faults, crashed, workerPos, processed>>

(***************************************************************************)
(* _onWorkerMessage                                                        *)
(***************************************************************************)
\* _activeWorkerCount() that is 0 as soon as some worker is done
activeWorkerCountAny(ws) ==
    IF \E pid \in DOMAIN ws : ws[pid].isDone THEN 0 ELSE Cardinality(DOMAIN ws)

\* _activeWorkerCount() with the test inverted: it counts the done workers
activeWorkerCountInverted(ws) ==
    Cardinality({pid \in DOMAIN ws : ws[pid].isDone})

\* _activeWorkerCount()
activeWorkerCount(ws) ==
    Cardinality(DOMAIN ws) - Cardinality({pid \in DOMAIN ws : ws[pid].isDone})

\* a TypeError leaves the handler; unless the host catches it the process ends
throw ==
    /\ faults' = faults + 1
    /\ crashed' \in BOOLEAN
    /\ UNCHANGED <<workers, intermediates, allIntermediates, currentPhase, events>>

\* the phase test written with >= : a repeated index is announced again
onPhaseStartedRepeat(message) ==
    IF message.phase = <<>>
    THEN throw
    ELSE /\ IF message.phase[1] >= currentPhase
            THEN /\ events' = Append(events, [type |-> "phaseStarted",
                                              arg |-> message.phase])
                 /\ currentPhase' = message.phase[1]
            ELSE UNCHANGED <<events, currentPhase>>
         /\ UNCHANGED <<workers, intermediates, allIntermediates, faults, crashed>>

\* the assignment moved out of the test: any index becomes the current one
onPhaseStartedAlwaysSet(message) ==
    IF message.phase = <<>>
    THEN throw
    ELSE /\ IF message.phase[1] > currentPhase
            THEN events' = Append(events, [type |-> "phaseStarted",
                                           arg |-> message.phase])
            ELSE UNCHANGED events
         /\ currentPhase' = message.phase[1]
         /\ UNCHANGED <<workers, intermediates, allIntermediates, faults, crashed>>

onPhaseStarted(message) ==
    IF message.phase = <<>>
    THEN throw
    ELSE /\ IF message.phase[1] > currentPhase
            THEN /\ events' = Append(events, [type |-> "phaseStarted",
                                              arg |-> message.phase])
                 /\ currentPhase' = message.phase[1]
            ELSE UNCHANGED <<events, currentPhase>>
         /\ UNCHANGED <<workers, intermediates, allIntermediates, faults, crashed>>

\* the stats branch without the push to this._intermediates
onStatsNoBuffer(message) ==
    /\ allIntermediates' = Append(allIntermediates, message.stats)
    /\ UNCHANGED <<workers, intermediates, currentPhase, events, faults, crashed>>

\* the stats branch without the push to this._allIntermediates
onStatsNoHistory(message) ==
    /\ intermediates' = Append(intermediates, <<message.pid, message.stats>>)
    /\ UNCHANGED <<workers, allIntermediates, currentPhase, events, faults, crashed>>

onStats(message) ==
    /\ intermediates' = Append(intermediates, <<message.pid, message.stats>>)
    /\ allIntermediates' = Append(allIntermediates, message.stats)
    /\ UNCHANGED <<workers, currentPhase, events, faults, crashed>>

\* the done branch reporting only what the last interval buffered
onDoneLastInterval(message) ==
    IF message.pid \notin DOMAIN workers
    THEN throw
    ELSE LET ws == [workers EXCEPT ![message.pid] =
                        [isDone |-> TRUE, kills |-> @.kills + 1]]
         IN /\ workers' = ws
            /\ IF activeWorkerCount(ws) = 0
               THEN LET r == sendStats(events, intermediates)
                    IN /\ events' = Append(r.events,
                               [type |-> "done",
                                arg |-> combine(snapshotsOf(intermediates))])
                       /\ intermediates' = r.intermediates
               ELSE UNCHANGED <<events, intermediates>>
            /\ UNCHANGED <<allIntermediates, currentPhase, faults, crashed>>

\* the done branch emitting done before the final flush
onDoneBeforeFlush(message) ==
    IF message.pid \notin DOMAIN workers
    THEN throw
    ELSE LET ws == [workers EXCEPT ![message.pid] =
                        [isDone |-> TRUE, kills |-> @.kills + 1]]
         IN /\ workers' = ws
            /\ IF activeWorkerCount(ws) = 0
               THEN LET r == sendStats(
                               Append(events, [type |-> "done",
                                               arg |-> combine(allIntermediates)]),
                               intermediates)
                    IN /\ events' = r.events
                       /\ intermediates' = r.intermediates
               ELSE UNCHANGED <<events, intermediates>>
            /\ UNCHANGED <<allIntermediates, currentPhase, faults, crashed>>

onDone(message) ==
    IF message.pid \notin DOMAIN workers
    THEN throw
    ELSE LET ws == [workers EXCEPT ![message.pid] =
                        [isDone |-> TRUE, kills |-> @.kills + 1]]
         IN /\ workers' = ws
            /\ IF activeWorkerCount(ws) = 0
               THEN LET r == sendStats(events, intermediates)
                    IN /\ events' = Append(r.events,
                               [type |-> "done", arg |-> combine(allIntermediates)])
                       /\ intermediates' = r.intermediates
               ELSE UNCHANGED <<events, intermediates>>
            /\ UNCHANGED <<allIntermediates, currentPhase, faults, crashed>>

\* the handler with the empty phaseCompleted branch filled in with an emit
onWorkerMessagePhaseCompleted(message) ==
    CASE message.event = "phaseStarted" -> onPhaseStarted(message)
      [] message.event = "phaseCompleted" ->
            /\ events' = Append(events, [type |-> "phaseCompleted",
                                         arg |-> message.phase])
            /\ UNCHANGED <<workers, intermediates, allIntermediates,
                           currentPhase, faults, crashed>>
      [] message.event = "stats" -> onStats(message)
      [] message.event = "done" -> onDone(message)
      [] OTHER -> UNCHANGED <<workers, intermediates, allIntermediates,
                              currentPhase, events, faults, crashed>>

onWorkerMessage(message) ==
    CASE message.event = "phaseStarted" -> onPhaseStarted(message)
      [] message.event = "stats" -> onStats(message)
      [] message.event = "done" -> onDone(message)
      [] OTHER -> UNCHANGED <<workers, intermediates, allIntermediates,
                              currentPhase, events, faults, crashed>>

\* a message of the forked process w reaches the handler registered for it
Deliver(w, m) ==
    /\ ~crashed
    /\ w \in DOMAIN workers
    /\ Len(processed) < MaxMsgs
    /\ m \in MsgsOf(w)
    /\ processed' = Append(processed, m)
    /\ onWorkerMessage(m)
    /\ UNCHANGED <<env, runs, timers, ticks, workerPos>>

\* the next message of the script of a worker that behaves: phaseStarted for
\* each phase in increasing order, then done
scriptMsg(w, k) ==
    IF k \in Phases
    THEN Msg("phaseStarted", NoPid, <<k>>, [concurrency |-> 0])
    ELSE Msg("done", w, <<>>, [concurrency |-> 0])

\* the next message of worker w's script reaches the handler; the messages of
\* one worker arrive in the order sent, those of different workers in any order
WorkerStep(w) ==
    /\ ~crashed
    /\ w \in DOMAIN workers
    /\ workerPos[w] <= Cardinality(Phases)
    /\ processed' = Append(processed, scriptMsg(w, workerPos[w]))
    /\ onWorkerMessage(scriptMsg(w, workerPos[w]))
    /\ workerPos' = [workerPos EXCEPT ![w] = @ + 1]
    /\ UNCHANGED <<env, runs, timers, ticks>>

(***************************************************************************)
(* Specifications.                                                         *)
(***************************************************************************)
Pids == 1..(MaxPool * MaxRuns)

Handle == \E w \in Pids : \E m \in MsgsOf(w) : Deliver(w, m)

Next == Run \/ TimerFire \/ Handle

\* run() is called once, as the interface asks
Spec == Init /\ [][Next]_vars

ReNext == Run \/ ReRun \/ TimerFire \/ Handle

\* run() may be called again
ReSpec == Init /\ [][ReNext]_vars

Script == \E w \in Pids : WorkerStep(w)

FifoNext == Run \/ TimerFire \/ Script

\* every worker sends its script over its own ordered channel
FifoSpec == Init /\ [][FifoNext]_vars

(***************************************************************************)
(* Properties.                                                             *)
(***************************************************************************)
AllWorkersDone ==
    /\ DOMAIN workers # {}
    /\ \A w \in DOMAIN workers : workers[w].isDone

\* the snapshots of the stats messages among msgs, in order
ReceivedSnapshots(msgs) ==
    LET st == SelectSeq(msgs, LAMBDA m : m.event = "stats")
    IN [i \in 1..Len(st) |-> st[i].stats]

\* the sum over the worker ids in the buffer of the worker's largest
\* concurrency, rounded to one decimal
ExpectedConcurrency(ints) ==
    LET ids == {ints[i][1] : i \in 1..Len(ints)}
        best == [p \in ids |->
                    SetMax({ints[i][2].concurrency :
                               i \in {k \in 1..Len(ints) : ints[k][1] = p}})]
    IN round(SetSum(best, ids))

\* C1: the done event is never emitted while a forked worker has not had its
\* done message processed.
C1_NoDoneBeforeAllWorkers ==
    DoneCount > 0 => \A w \in DOMAIN workers : workers[w].isDone

\* two workers, one done and one not, and no done event
C1_Witness ==
    /\ Cardinality(DOMAIN workers) >= 2
    /\ \E w \in DOMAIN workers : workers[w].isDone
    /\ \E w \in DOMAIN workers : ~workers[w].isDone
    /\ DoneCount = 0

\* C2: the done event is emitted exactly once per run; no later message, a
\* repeated done message included, causes a second one.
C2_DoneExactlyOnce == DoneCount <= 1

\* C3: the phaseStarted events emitted have strictly increasing indices.
C3_PhasesStrictlyIncreasing ==
    \A i, j \in 1..Len(events) :
        (i < j /\ events[i].type = "phaseStarted" /\ events[j].type = "phaseStarted")
            => events[i].arg[1] < events[j].arg[1]

\* two phases announced out of three well-formed phaseStarted messages
C3_Witness ==
    /\ Count(events, "phaseStarted") = 2
    /\ Len(SelectSeq(processed,
               LAMBDA m : m.event = "phaseStarted" /\ m.phase # <<>>)) = 3

C5_DoneReportsWholeRun ==
    [][/\ DoneCount' > DoneCount
            => Last(events').arg = combine(ReceivedSnapshots(processed'))
       /\ Len(allIntermediates') >= Len(allIntermediates)
       /\ SubSeq(allIntermediates', 1, Len(allIntermediates)) = allIntermediates]_vars

\* a done event that reports more snapshots than the final flush before it
C5_Witness ==
    \E i \in 2..Len(events) :
        /\ events[i].type = "done"
        /\ events[i - 1].type = "stats"
        /\ BagCardinality(events[i].arg.snaps)
              > BagCardinality(events[i - 1].arg.snaps)

\* C6: a flush reports exactly the buffer and leaves it empty; a report once
\* emitted never changes; between flushes the buffer grows by exactly the
\* snapshots of the stats messages processed.
C6_BufferHoldsSinceLastFlush ==
    [][/\ SubSeq(events', 1, Len(events)) = events
       /\ StatsCount' > StatsCount
            => /\ intermediates' = <<>>
               /\ \E i \in (Len(events) + 1)..Len(events') :
                     /\ events'[i].type = "stats"
                     /\ events'[i].arg.snaps = combine(snapshotsOf(intermediates)).snaps
       /\ StatsCount' = StatsCount
            => intermediates' =
                  IF Len(processed') > Len(processed)
                     /\ Last(processed').event = "stats"
                  THEN Append(intermediates,
                              <<Last(processed').pid, Last(processed').stats>>)
                  ELSE intermediates]_vars

\* a report with a snapshot was emitted and a later snapshot waits in the buffer
C6_Witness ==
    /\ intermediates # <<>>
    /\ \E i \in 1..Len(events) :
          /\ events[i].type = "stats"
          /\ BagCardinality(events[i].arg.snaps) >= 1
    /\ Len(allIntermediates) > Len(intermediates)

\* C7: after the done event the coordinator emits no further event.
C7_CompletedIsTerminal == [][DoneCount >= 1 => events' = events]_vars

\* C8: once run() has been called, a further call forks no worker, registers
\* no worker and starts no timer.
C8_RunTakesEffectOnce ==
    [][runs >= 1 => (DOMAIN workers' = DOMAIN workers /\ timers' = timers)]_vars

\* C9: with at least one worker, the step that processes the last outstanding
\* done message emits the done event, so the event follows once every worker's
\* done message has been processed; and the done event is emitted only in such
\* a step, so it never is while some worker's done message stays unprocessed.
C9_CompletionIffAllDone ==
    [][/\ (AllWorkersDone' /\ ~AllWorkersDone) => DoneCount' = DoneCount + 1
       /\ DoneCount' > DoneCount
            => /\ AllWorkersDone'
               /\ Len(processed') = Len(processed) + 1
               /\ Last(processed').event = "done"
               /\ Last(events').type = "done"]_vars

\* two workers, both done, and the done event emitted
C9_Witness ==
    /\ Cardinality(DOMAIN workers) >= 2
    /\ AllWorkersDone
    /\ DoneCount = 1

\* C10: when the pool size resolves to zero no worker is forked and no done
\* event is ever emitted, while the timer goes on emitting stats events.
C10_EmptyPoolNeverDone ==
    numWorkers(env) = 0 => (DOMAIN workers = {} /\ DoneCount = 0)

\* a started run without workers whose timer has fired twice
C10_Witness ==
    /\ numWorkers(env) = 0
    /\ runs = 1
    /\ DOMAIN workers = {}
    /\ StatsCount >= 2
    /\ DoneCount = 0

\* a handler step: one more message has been processed
Handled == Len(processed') = Len(processed) + 1

\* a message of a recognized kind with a field that cannot be used
Malformed(m) ==
    \/ m.event = "done" /\ m.pid \notin DOMAIN workers
    \/ m.event = "phaseStarted" /\ m.phase = <<>>

\* C11: a malformed message of a recognized kind is dropped silently: the run
\* state is unchanged, no event is emitted and no fault is raised.
C11_MalformedSilentlyDropped ==
    [][(Handled /\ Malformed(Last(processed')))
          => /\ UNCHANGED <<workers, currentPhase, intermediates,
                            allIntermediates, events>>
             /\ faults' = faults
             /\ crashed' = crashed]_vars

\* C12: a phaseCompleted message or a message of an unknown kind changes
\* nothing of the run state and emits no event.
C12_IgnoredKindsChangeNothing ==
    [][(Handled /\ Last(processed').event \in {"phaseCompleted", "other"})
          => UNCHANGED <<workers, currentPhase, intermediates, allIntermediates,
                         events, faults, crashed>>]_vars

\* both kinds were processed while a snapshot was buffered and a phase announced
C12_Witness ==
    /\ Len(processed) >= 3
    /\ \E i \in 1..Len(processed) : processed[i].event = "phaseCompleted"
    /\ Last(processed).event = "other"
    /\ (intermediates # <<>> \/ currentPhase >= 0)

\* C13: the step that emits done first emits one stats event that reports the
\* pending buffer and then the done event, and leaves the buffer empty.
C13_FlushThenDone ==
    [][DoneCount' > DoneCount
          => /\ Len(events') = Len(events) + 2
             /\ SubSeq(events', 1, Len(events)) = events
             /\ events'[Len(events) + 1].type = "stats"
             /\ events'[Len(events) + 1].arg.snaps
                   = combine(snapshotsOf(intermediates)).snaps
             /\ events'[Len(events) + 2].type = "done"
             /\ intermediates' = <<>>]_vars

\* a run ended by a final flush that drained a trailing snapshot
C13_Witness ==
    /\ Len(events) >= 2
    /\ Last(events).type = "done"
    /\ events[Len(events) - 1].type = "stats"
    /\ BagCardinality(events[Len(events) - 1].arg.snaps) >= 1
    /\ intermediates = <<>>

\* C14: isDone starts false, changes only when a done message with the
\* worker's own id is processed, never returns to false and is set, with the
\* process killed, at most once; no process is killed before that.
C14_DoneFlagSetOnce ==
    [][\A w \in DOMAIN workers' :
          /\ w \notin DOMAIN workers
                => (~workers'[w].isDone /\ workers'[w].kills = 0)
          /\ w \in DOMAIN workers
                => /\ workers[w].isDone => workers'[w].isDone
                   /\ workers'[w] # workers[w]
                         => /\ Handled
                            /\ Last(processed').event = "done"
                            /\ Last(processed').pid = w
                   /\ workers'[w].kills > 0 => workers'[w].isDone
                   /\ workers'[w].kills <= 1]_vars

\* the indices of the well-formed phaseStarted messages among msgs
PhaseIndices(msgs) ==
    {msgs[i].phase[1] :
        i \in {k \in 1..Len(msgs) :
                  msgs[k].event = "phaseStarted" /\ msgs[k].phase # <<>>}}

\* the indices of the phaseStarted events of ev, in the order emitted
AnnouncedPhases(ev) ==
    LET ps == SelectSeq(ev, LAMBDA e : e.type = "phaseStarted")
    IN [i \in 1..Len(ps) |-> ps[i].arg[1]]

\* currentPhase is the largest index seen and the last one announced
PhaseIsLargestSeen ==
    /\ currentPhase = SetMax(PhaseIndices(processed) \cup {-1})
    /\ AnnouncedPhases(events) # <<>>
          => currentPhase = Last(AnnouncedPhases(events))
    /\ AnnouncedPhases(events) = <<>> => currentPhase = -1

\* C15: currentPhase starts at -1, never decreases, is always the largest index
\* of the phaseStarted messages processed and the index last announced; an
\* index not above it changes nothing, a larger one is announced exactly once.
C15_CurrentPhaseIsLargestSeen ==
    /\ PhaseIsLargestSeen
    /\ [][/\ PhaseIsLargestSeen'
          /\ currentPhase' >= currentPhase
          /\ (Handled /\ Last(processed').event = "phaseStarted"
                 /\ Last(processed').phase # <<>>)
                => IF Last(processed').phase[1] <= currentPhase
                   THEN UNCHANGED <<workers, currentPhase, intermediates,
                                    allIntermediates, events, faults, crashed>>
                   ELSE /\ events' = Append(events,
                               [type |-> "phaseStarted",
                                arg |-> Last(processed').phase])
                        /\ currentPhase' = Last(processed').phase[1]]_vars

\* phase 1 was announced and a later message for phase 0 was dropped
C15_Witness ==
    /\ Len(processed) >= 2
    /\ processed[1].event = "phaseStarted" /\ processed[1].phase = <<1>>
    /\ processed[2].event = "phaseStarted" /\ processed[2].phase = <<0>>
    /\ currentPhase = 1
    /\ AnnouncedPhases(events) = <<1>>

\* C16: when every worker sends the phases in increasing order, each phase
\* reached by some worker is announced exactly once, in order, none skipped,
\* and it is the first message for a phase that announces it.
C16_EachPhaseAnnouncedOnce ==
    /\ AnnouncedPhases(events) = <<>>
    /\ [][/\ AnnouncedPhases(events')
                = [i \in 1..Cardinality(PhaseIndices(processed')) |-> i - 1]
          /\ (Handled /\ Last(processed').event = "phaseStarted")
                => (Len(AnnouncedPhases(events')) = Len(AnnouncedPhases(events)) + 1
                       <=> Last(processed').phase[1] \notin PhaseIndices(processed))]_vars

\* two workers have both sent every phase and each phase was announced once
C16_Witness ==
    /\ Cardinality(DOMAIN workers) >= 2
    /\ \A w \in DOMAIN workers : workerPos[w] >= Cardinality(Phases)
    /\ Len(AnnouncedPhases(events)) = Cardinality(Phases)

RECURSIVE ReportedSnapshots(_)
\* the snapshots merged by the stats events of ev, as one bag
ReportedSnapshots(ev) ==
    IF ev = <<>> THEN EmptyBag
    ELSE IF Last(ev).type = "stats"
         THEN ReportedSnapshots(Front(ev)) (+) Last(ev).arg.snaps
         ELSE ReportedSnapshots(Front(ev))

\* C17: every snapshot received is in the buffer or in exactly one stats report;
\* when done is emitted the reports together hold exactly allIntermediates.
C17_NoSnapshotLostOrDoubled ==
    [][/\ ReportedSnapshots(events') (+) combine(snapshotsOf(intermediates')).snaps
             = combine(ReceivedSnapshots(processed')).snaps
       /\ DoneCount' > DoneCount
             => ReportedSnapshots(events') = combine(allIntermediates').snaps]_vars

\* done after two reports that each merged a snapshot
C17_Witness ==
    /\ DoneCount = 1
    /\ Cardinality({i \in 1..Len(events) :
                       /\ events[i].type = "stats"
                       /\ BagCardinality(events[i].arg.snaps) >= 1}) >= 2

\* C18: every flush emits exactly one stats event, with an empty report of
\* concurrency 0 when nothing is buffered, so the stats events number the
\* timer ticks plus the final flushes.
C18_OneStatsEventPerFlush ==
    /\ StatsCount = ticks + DoneCount
    /\ \A i \in 1..Len(events) :
          (events[i].type = "stats" /\ events[i].arg.snaps = EmptyBag)
              => events[i].arg.concurrency = 0

\* two ticks and the final flush, at least one of them with nothing buffered
C18_Witness ==
    /\ ticks = 2
    /\ DoneCount = 1
    /\ StatsCount = 3
    /\ \E i \in 1..Len(events) :
          events[i].type = "stats" /\ events[i].arg.snaps = EmptyBag

\* s is the end of t
IsSuffix(s, t) ==
    /\ Len(s) <= Len(t)
    /\ SubSeq(t, Len(t) - Len(s) + 1, Len(t)) = s

\* C19: a stats message appends its snapshot to the buffer, tagged with the
\* sender, and to the history, emits nothing and leaves the phase and the
\* workers alone; the buffer is a suffix of the history, which only grows.
C19_StatsAppendsToBoth ==
    [][/\ (Handled /\ Last(processed').event = "stats")
             => /\ intermediates' = Append(intermediates,
                       <<Last(processed').pid, Last(processed').stats>>)
                /\ allIntermediates' = Append(allIntermediates, Last(processed').stats)
                /\ UNCHANGED <<events, currentPhase, workers, faults, crashed>>
       /\ IsSuffix(snapshotsOf(intermediates'), allIntermediates')
       /\ Len(allIntermediates') >= Len(allIntermediates)
       /\ SubSeq(allIntermediates', 1, Len(allIntermediates)) = allIntermediates]_vars

\* a snapshot was flushed and two later ones from a known sender are buffered
C19_Witness ==
    /\ Len(allIntermediates) = 3
    /\ Len(intermediates) = 2
    /\ \A i \in 1..2 : intermediates[i][1] \in DOMAIN workers
    /\ StatsCount >= 1

=============================================================================
